---- MODULE Spec2Model ----
(***************************************************************************)
(* Condition variables of pico_sync (src/common/pico_sync/cond.c).         *)
(*                                                                         *)
(* Every caller (a core, or a task when lock_get_caller_owner_id() is      *)
(* overridden) runs the functions of cond.c one statement at a time.  A    *)
(* call of a lock primitive is one step; a primitive that sleeps           *)
(* (..._with_wait, ..._wait_or_timeout) is two, the unlock and the wake-up. *)
(* The save_and_disable_interrupts() of a spin_lock_blocking belongs to    *)
(* the step before it, so a caller spinning for a lock has its interrupts  *)
(* masked.  A hardware spin lock is one bit: writing it frees it, whoever  *)
(* took it; lock[] records the last taker so that properties can name it.  *)
(***************************************************************************)
EXTENDS Integers, Sequences, FiniteSets, TLC

\* ---------------------------------------------------------------- bounds
MaxCalls == 3          \* API calls made by one core
MaxTime == 1           \* the clock runs from 0 to MaxTime

\* lock_get_caller_owner_id(): the two cores, and a third caller for the
\* scenarios that name three
Cores == {0, 1}
Callers == {0, 1, 2}

\* lock_owner_id_t: a caller's number, or the reserved invalid value
LOCK_INVALID_OWNER_ID == -1
lock_is_owner_id_valid(id) == id # LOCK_INVALID_OWNER_ID

\* absolute_time_t: a clock value, or the sentinel after every clock value
at_the_end_of_time == MaxTime + 1
is_at_the_end_of_time(t) == t = at_the_end_of_time

\* the spin lock of the mutex (its number in the striped pool) and the two
\* numbers next_striped_spin_lock_num() may give the condition variable
MtxSpinLock == 0
SpinLocks == {0, 1}
Free == -1

Ops == {"mutex_enter", "mutex_exit", "cond_wait", "cond_wait_timeout",
        "cond_signal", "cond_broadcast"}

VARIABLES
    lock,               \* spin lock number -> last taker, or Free
    cond_spin_lock,     \* cond->core.spin_lock (set once by cond_init)
    mtx_owner,          \* mtx->owner
    waiter,             \* cond->waiter
    signaled,           \* cond->signaled
    broadcast_count,    \* cond->broadcast_count
    ev,                 \* caller -> its event register (SEV sets, WFE clears)
    now,                \* the time source
    pc,                 \* caller -> the statement it is at
    success,            \* caller -> local success of cond_wait_until
    current_broadcast,  \* caller -> local current_broadcast
    until,              \* caller -> argument until
    save,               \* caller -> local save (interrupts enabled when saved)
    irq,                \* caller -> interrupts enabled
    holding,            \* caller -> it acquired the mutex and has not released it
    result,             \* caller -> what its last cond_wait_until returned
    seen,               \* caller -> a signal/broadcast took effect since wait entry
    owed,               \* caller -> it changed an awaited state and has not notified
    todo                \* caller -> the calls it still makes (allowed operations)

vars == <<lock, cond_spin_lock, mtx_owner, waiter, signaled, broadcast_count,
          ev, now, pc, success, current_broadcast, until, save, irq, holding,
          result, seen, owed, todo>>

condvars == <<waiter, signaled, broadcast_count>>
locals == <<success, current_broadcast, until>>
ghost == <<holding, result, seen, owed>>

same_spinlock == MtxSpinLock = cond_spin_lock

\* ------------------------------------------------------------- primitives

\* spin_lock_unsafe_blocking: spins until the lock bit is clear, then sets it
spin_lock_unsafe_blocking(p, l) ==
    /\ lock[l] = Free
    /\ lock' = [lock EXCEPT ![l] = p]

\* spin_unlock_unsafe: clears the lock bit
spin_unlock_unsafe(l) == lock' = [lock EXCEPT ![l] = Free]

\* __sev(): sets the event register of every core
sev == ev' = [q \in Callers |-> TRUE]

\* __wfe(): returns once the event register is set, and clears it
wfe(p) ==
    /\ ev[p]
    /\ ev' = [ev EXCEPT ![p] = FALSE]

\* time_reached(until)
time_reached(t) == now >= t

\* best_effort_wfe_or_timeout: returns on an event or once the deadline's
\* alarm has fired (or at once when the deadline has already passed)
best_effort_wfe(p) ==
    /\ ev[p] \/ time_reached(until[p])
    /\ ev' = [ev EXCEPT ![p] = FALSE]

\* save_and_disable_interrupts(), the first half of spin_lock_blocking
save_and_disable_interrupts(p) ==
    /\ save' = [save EXCEPT ![p] = irq[p]]
    /\ irq' = [irq EXCEPT ![p] = FALSE]

\* restore_interrupts(save), the second half of spin_unlock
restore_interrupts(p) == irq' = [irq EXCEPT ![p] = save[p]]

\* restore_interrupts(save) followed by the save_and_disable_interrupts()
\* of the spin_lock_blocking that is the caller's next statement
restore_then_disable(p) ==
    /\ save' = save
    /\ irq' = [irq EXCEPT ![p] = FALSE]

goto(p, l) == pc' = [pc EXCEPT ![p] = l]

\* the caller writes a value that a sleeping core may be waiting for
\* (mtx->owner invalid, cond->waiter invalid, cond->signaled true,
\* cond->broadcast_count advanced)
changes_awaited(p) == owed' = [owed EXCEPT ![p] = TRUE]

\* the caller sends a wake notification (__sev, or an unlock with notify)
notifies(p) ==
    /\ sev
    /\ owed' = [owed EXCEPT ![p] = FALSE]

\* a caller starts the next call of its program
begin(p, op) ==
    /\ pc[p] = "idle"
    /\ todo[p] # <<>>
    /\ op \in Head(todo[p])
    /\ todo' = [todo EXCEPT ![p] = Tail(todo[p])]

\* the statements of cond_wait_until (a caller at one of them is in a wait)
WaitPcs == {"W22", "W34", "W38", "W40", "W43", "W45", "W49", "W50", "W53", "W56",
            "W60", "W60wfe", "W62", "W62wfe", "W68", "W72", "W75", "W76", "W80",
            "W81", "W82", "W86", "W86wfe", "W88", "W88wfe", "W90", "W95", "W102",
            "W103", "W106", "W109", "W110", "W113", "W117", "W117wfe", "W118",
            "W122", "W126", "W127"}
InWait(q) == pc[q] \in WaitPcs

\* ------------------------------------------------------------------ Init
\* each core makes MaxCalls calls, of any operation
Programs == {[p \in Callers |-> IF p \in Cores THEN [i \in 1 .. MaxCalls |-> Ops] ELSE <<>>]}

InitWith(progs) ==
    /\ lock = [l \in SpinLocks |-> Free]
    /\ cond_spin_lock \in SpinLocks
    /\ mtx_owner = LOCK_INVALID_OWNER_ID
    /\ waiter = LOCK_INVALID_OWNER_ID
    /\ signaled = FALSE
    /\ broadcast_count = 0
    /\ ev = [p \in Callers |-> FALSE]
    /\ now = 0
    /\ pc = [p \in Callers |-> "idle"]
    /\ success = [p \in Callers |-> TRUE]
    /\ current_broadcast = [p \in Callers |-> 0]
    /\ until = [p \in Callers |-> at_the_end_of_time]
    /\ save = [p \in Callers |-> TRUE]
    /\ irq = [p \in Callers |-> TRUE]
    /\ holding = [p \in Callers |-> FALSE]
    /\ result = [p \in Callers |-> "none"]
    /\ seen = [p \in Callers |-> FALSE]
    /\ owed = [p \in Callers |-> FALSE]
    /\ todo \in progs

Init == InitWith(Programs)

\* ------------------------------------------------------ the time source
Tick ==
    /\ now < MaxTime
    /\ \E p \in Callers : ~is_at_the_end_of_time(until[p]) /\ ~time_reached(until[p])
    /\ now' = now + 1
    /\ UNCHANGED <<lock, cond_spin_lock, mtx_owner, condvars, ev, pc, locals, save,
                   irq, ghost, todo>>

\* ------------------------------------------------- mutex (pico/mutex.h)
mutex_enter_blocking(p) ==
    /\ begin(p, "mutex_enter")
    /\ ~holding[p]
    /\ save_and_disable_interrupts(p)
    /\ goto(p, "E_lock")
    /\ result' = [result EXCEPT ![p] = "none"]
    /\ seen' = [seen EXCEPT ![p] = FALSE]
    /\ UNCHANGED <<lock, cond_spin_lock, mtx_owner, condvars, ev, now, locals, holding,
                   owed>>

E_lock(p) ==
    /\ pc[p] = "E_lock"
    /\ spin_lock_unsafe_blocking(p, MtxSpinLock)
    /\ goto(p, "E_owner")
    /\ UNCHANGED <<cond_spin_lock, mtx_owner, condvars, ev, now, locals, save, irq,
                   ghost, todo>>

E_owner(p) ==
    /\ pc[p] = "E_owner"
    /\ goto(p, IF ~lock_is_owner_id_valid(mtx_owner) THEN "E_take" ELSE "E_wait")
    /\ UNCHANGED <<lock, cond_spin_lock, mtx_owner, condvars, ev, now, locals, save,
                   irq, ghost, todo>>

E_take(p) ==
    /\ pc[p] = "E_take"
    /\ mtx_owner' = p
    /\ holding' = [holding EXCEPT ![p] = TRUE]
    /\ spin_unlock_unsafe(MtxSpinLock)
    /\ restore_interrupts(p)
    /\ goto(p, "idle")
    /\ UNCHANGED <<cond_spin_lock, condvars, ev, now, locals, save, result, seen, owed,
                   todo>>

E_wait(p) ==
    /\ pc[p] = "E_wait"
    /\ spin_unlock_unsafe(MtxSpinLock)
    /\ restore_interrupts(p)
    /\ goto(p, "E_wfe")
    /\ UNCHANGED <<cond_spin_lock, mtx_owner, condvars, ev, now, locals, save, ghost,
                   todo>>

E_wfe(p) ==
    /\ pc[p] = "E_wfe"
    /\ wfe(p)
    /\ save_and_disable_interrupts(p)
    /\ goto(p, "E_lock")
    /\ UNCHANGED <<lock, cond_spin_lock, mtx_owner, condvars, now, locals, ghost, todo>>

mutex_exit(p) ==
    /\ begin(p, "mutex_exit")
    /\ holding[p]
    /\ save_and_disable_interrupts(p)
    /\ goto(p, "X_lock")
    /\ result' = [result EXCEPT ![p] = "none"]
    /\ seen' = [seen EXCEPT ![p] = FALSE]
    /\ UNCHANGED <<lock, cond_spin_lock, mtx_owner, condvars, ev, now, locals, holding,
                   owed>>

X_lock(p) ==
    /\ pc[p] = "X_lock"
    /\ spin_lock_unsafe_blocking(p, MtxSpinLock)
    /\ goto(p, "X_owner")
    /\ UNCHANGED <<cond_spin_lock, mtx_owner, condvars, ev, now, locals, save, irq,
                   ghost, todo>>

X_owner(p) ==
    /\ pc[p] = "X_owner"
    /\ mtx_owner' = LOCK_INVALID_OWNER_ID
    /\ holding' = [holding EXCEPT ![p] = FALSE]
    /\ spin_unlock_unsafe(MtxSpinLock)
    /\ restore_interrupts(p)
    /\ sev
    /\ goto(p, "idle")
    /\ UNCHANGED <<cond_spin_lock, condvars, now, locals, save, result, seen, owed,
                   todo>>

\* ----------------------------------------------------------- cond_signal
\* a signal or broadcast that finds a waiter takes effect (writes signaled or
\* broadcast_count) during the wait of every caller inside cond_wait_until
takes_effect == seen' = [q \in Callers |-> seen[q] \/ InWait(q)]

cond_signal(p) ==
    /\ begin(p, "cond_signal")
    /\ save_and_disable_interrupts(p)
    /\ goto(p, "S145")
    /\ result' = [result EXCEPT ![p] = "none"]
    /\ seen' = [seen EXCEPT ![p] = FALSE]
    /\ UNCHANGED <<lock, cond_spin_lock, mtx_owner, condvars, ev, now, locals, holding,
                   owed>>

S145(p) ==
    /\ pc[p] = "S145"
    /\ spin_lock_unsafe_blocking(p, cond_spin_lock)
    /\ goto(p, "S146")
    /\ UNCHANGED <<cond_spin_lock, mtx_owner, condvars, ev, now, locals, save, irq,
                   ghost, todo>>

S146(p) ==
    /\ pc[p] = "S146"
    /\ goto(p, IF lock_is_owner_id_valid(waiter) THEN "S148" ELSE "S151")
    /\ UNCHANGED <<lock, cond_spin_lock, mtx_owner, condvars, ev, now, locals, save,
                   irq, ghost, todo>>

\* a signal that finds a waiter and does not set cond->signaled
S148_forgets(p) ==
    /\ pc[p] = "S148"
    /\ goto(p, "S149")
    /\ UNCHANGED <<lock, cond_spin_lock, mtx_owner, condvars, ev, now, locals, save,
                   irq, ghost, todo>>

S148(p) ==
    /\ pc[p] = "S148"
    /\ signaled' = TRUE
    /\ takes_effect
    /\ goto(p, "S149")
    /\ changes_awaited(p)
    /\ UNCHANGED <<lock, cond_spin_lock, mtx_owner, waiter, broadcast_count, ev, now,
                   locals, save, irq, holding, result, todo>>

S149(p) ==
    /\ pc[p] = "S149"
    /\ spin_unlock_unsafe(cond_spin_lock)
    /\ restore_interrupts(p)
    /\ notifies(p)
    /\ goto(p, "idle")
    /\ UNCHANGED <<cond_spin_lock, mtx_owner, condvars, now, locals, save, holding,
                   result, seen, todo>>

\* a signal that notifies although it found no waiter
S151_notifies(p) ==
    /\ pc[p] = "S151"
    /\ spin_unlock_unsafe(cond_spin_lock)
    /\ restore_interrupts(p)
    /\ sev
    /\ goto(p, "idle")
    /\ UNCHANGED <<cond_spin_lock, mtx_owner, condvars, now, locals, save, ghost, todo>>

S151(p) ==
    /\ pc[p] = "S151"
    /\ spin_unlock_unsafe(cond_spin_lock)
    /\ restore_interrupts(p)
    /\ goto(p, "idle")
    /\ UNCHANGED <<cond_spin_lock, mtx_owner, condvars, ev, now, locals, save, ghost,
                   todo>>

\* -------------------------------------------------------- cond_broadcast
cond_broadcast(p) ==
    /\ begin(p, "cond_broadcast")
    /\ save_and_disable_interrupts(p)
    /\ goto(p, "B156")
    /\ result' = [result EXCEPT ![p] = "none"]
    /\ seen' = [seen EXCEPT ![p] = FALSE]
    /\ UNCHANGED <<lock, cond_spin_lock, mtx_owner, condvars, ev, now, locals, holding,
                   owed>>

B156(p) ==
    /\ pc[p] = "B156"
    /\ spin_lock_unsafe_blocking(p, cond_spin_lock)
    /\ goto(p, "B157")
    /\ UNCHANGED <<cond_spin_lock, mtx_owner, condvars, ev, now, locals, save, irq,
                   ghost, todo>>

B157(p) ==
    /\ pc[p] = "B157"
    /\ goto(p, IF lock_is_owner_id_valid(waiter) THEN "B159" ELSE "B163")
    /\ UNCHANGED <<lock, cond_spin_lock, mtx_owner, condvars, ev, now, locals, save,
                   irq, ghost, todo>>

B159(p) ==
    /\ pc[p] = "B159"
    /\ signaled' = TRUE
    /\ takes_effect
    /\ goto(p, "B160")
    /\ changes_awaited(p)
    /\ UNCHANGED <<lock, cond_spin_lock, mtx_owner, waiter, broadcast_count, ev, now,
                   locals, save, irq, holding, result, todo>>

\* a broadcast that does not advance cond->broadcast_count
B160_keeps_count(p) ==
    /\ pc[p] = "B160"
    /\ goto(p, "B161")
    /\ UNCHANGED <<lock, cond_spin_lock, mtx_owner, condvars, ev, now, locals, save,
                   irq, ghost, todo>>

B160(p) ==
    /\ pc[p] = "B160"
    /\ broadcast_count' = broadcast_count + 1
    /\ takes_effect
    /\ goto(p, "B161")
    /\ changes_awaited(p)
    /\ UNCHANGED <<lock, cond_spin_lock, mtx_owner, waiter, signaled, ev, now, locals,
                   save, irq, holding, result, todo>>

B161(p) ==
    /\ pc[p] = "B161"
    /\ spin_unlock_unsafe(cond_spin_lock)
    /\ restore_interrupts(p)
    /\ notifies(p)
    /\ goto(p, "idle")
    /\ UNCHANGED <<cond_spin_lock, mtx_owner, condvars, now, locals, save, holding,
                   result, seen, todo>>

B163(p) ==
    /\ pc[p] = "B163"
    /\ spin_unlock_unsafe(cond_spin_lock)
    /\ restore_interrupts(p)
    /\ goto(p, "idle")
    /\ UNCHANGED <<cond_spin_lock, mtx_owner, condvars, ev, now, locals, save, ghost,
                   todo>>

\* ------------------------------------------------------- cond_wait_until
\* lines 17-20: entry, with the deadline u; the caller owns the mutex
enter_wait(p, u) ==
    /\ holding[p]
    /\ success' = [success EXCEPT ![p] = TRUE]
    /\ until' = [until EXCEPT ![p] = u]
    /\ save_and_disable_interrupts(p)
    /\ goto(p, "W22")
    /\ result' = [result EXCEPT ![p] = "none"]
    /\ seen' = [seen EXCEPT ![p] = FALSE]
    /\ UNCHANGED <<lock, cond_spin_lock, mtx_owner, condvars, ev, now,
                   current_broadcast, holding, owed>>

\* lines 140-142: cond_wait
cond_wait(p) ==
    /\ begin(p, "cond_wait")
    /\ enter_wait(p, at_the_end_of_time)

\* make_timeout_time_ms / make_timeout_time_us: the deadline of a timeout
make_timeout_time(t) == now + t

\* lines 132-138: cond_wait_timeout_ms and cond_wait_timeout_us
cond_wait_timeout(p) ==
    /\ begin(p, "cond_wait_timeout")
    /\ \E t \in 0 .. (MaxTime - now) : enter_wait(p, make_timeout_time(t))

\* lines 22-30: take the mutex's spin lock; the two asserts stop a debug
\* build when the caller is not the owner and are absent from a release build
AssertOutcomes(p, next) == IF mtx_owner = p THEN {next} ELSE {next, "panic"}

\* an entry that takes the condition variable's lock without the same-lock test
W22_always_second_acquire(p) ==
    /\ pc[p] = "W22"
    /\ spin_lock_unsafe_blocking(p, MtxSpinLock)
    /\ \E l \in AssertOutcomes(p, "W34") : goto(p, l)
    /\ UNCHANGED <<cond_spin_lock, mtx_owner, condvars, ev, now, locals, save, irq,
                   ghost, todo>>

W22(p) ==
    /\ pc[p] = "W22"
    /\ spin_lock_unsafe_blocking(p, MtxSpinLock)
    /\ \E l \in AssertOutcomes(p, IF same_spinlock THEN "W38" ELSE "W34") : goto(p, l)
    /\ UNCHANGED <<cond_spin_lock, mtx_owner, condvars, ev, now, locals, save, irq,
                   ghost, todo>>

\* lines 33-35
W34(p) ==
    /\ pc[p] = "W34"
    /\ spin_lock_unsafe_blocking(p, cond_spin_lock)
    /\ goto(p, "W38")
    /\ UNCHANGED <<cond_spin_lock, mtx_owner, condvars, ev, now, locals, save, irq,
                   ghost, todo>>

\* line 38
W38(p) ==
    /\ pc[p] = "W38"
    /\ mtx_owner' = LOCK_INVALID_OWNER_ID
    /\ holding' = [holding EXCEPT ![p] = FALSE]
    /\ goto(p, IF same_spinlock THEN "W43" ELSE "W40")
    /\ changes_awaited(p)
    /\ UNCHANGED <<lock, cond_spin_lock, condvars, ev, now, locals, save, irq, result,
                   seen, todo>>

\* lines 39-41
W40(p) ==
    /\ pc[p] = "W40"
    /\ spin_unlock_unsafe(MtxSpinLock)
    /\ goto(p, "W43")
    /\ UNCHANGED <<cond_spin_lock, mtx_owner, condvars, ev, now, locals, save, irq,
                   ghost, todo>>

\* line 43
W43(p) ==
    /\ pc[p] = "W43"
    /\ current_broadcast' = [current_broadcast EXCEPT ![p] = broadcast_count]
    /\ goto(p, "W45")
    /\ UNCHANGED <<lock, cond_spin_lock, mtx_owner, condvars, ev, now, success, until,
                   save, irq, ghost, todo>>

\* line 45
W45(p) ==
    /\ pc[p] = "W45"
    /\ goto(p, IF lock_is_owner_id_valid(waiter) THEN "W49" ELSE "W72")
    /\ UNCHANGED <<lock, cond_spin_lock, mtx_owner, condvars, ev, now, locals, save,
                   irq, ghost, todo>>

\* line 49: lock_internal_spin_unlock_with_notify(&cond->core, save)
W49(p) ==
    /\ pc[p] = "W49"
    /\ spin_unlock_unsafe(cond_spin_lock)
    /\ restore_then_disable(p)
    /\ notifies(p)
    /\ goto(p, "W50")
    /\ UNCHANGED <<cond_spin_lock, mtx_owner, condvars, now, locals, holding, result,
                   seen, todo>>

\* line 50
W50(p) ==
    /\ pc[p] = "W50"
    /\ spin_lock_unsafe_blocking(p, cond_spin_lock)
    /\ goto(p, "W53")
    /\ UNCHANGED <<cond_spin_lock, mtx_owner, condvars, ev, now, locals, save, irq,
                   ghost, todo>>

\* lines 53-55
W53(p) ==
    /\ pc[p] = "W53"
    /\ goto(p, IF ~lock_is_owner_id_valid(waiter) THEN "W75" ELSE "W56")
    /\ UNCHANGED <<lock, cond_spin_lock, mtx_owner, condvars, ev, now, locals, save,
                   irq, ghost, todo>>

\* lines 56-59
W56(p) ==
    /\ pc[p] = "W56"
    /\ goto(p, IF broadcast_count # current_broadcast[p] THEN "W75"
               ELSE IF is_at_the_end_of_time(until[p]) THEN "W60" ELSE "W62")
    /\ UNCHANGED <<lock, cond_spin_lock, mtx_owner, condvars, ev, now, locals, save,
                   irq, ghost, todo>>

\* line 60: lock_internal_spin_unlock_with_wait(&cond->core, save), the unlock
W60(p) ==
    /\ pc[p] = "W60"
    /\ spin_unlock_unsafe(cond_spin_lock)
    /\ restore_interrupts(p)
    /\ goto(p, "W60wfe")
    /\ UNCHANGED <<cond_spin_lock, mtx_owner, condvars, ev, now, locals, save, ghost,
                   todo>>

\* line 60, the __wfe()
W60wfe(p) ==
    /\ pc[p] = "W60wfe"
    /\ wfe(p)
    /\ save_and_disable_interrupts(p)
    /\ goto(p, "W68")
    /\ UNCHANGED <<lock, cond_spin_lock, mtx_owner, condvars, now, locals, ghost, todo>>

\* line 62: lock_internal_spin_unlock_with_best_effort_wait_or_timeout, the unlock
W62(p) ==
    /\ pc[p] = "W62"
    /\ spin_unlock_unsafe(cond_spin_lock)
    /\ restore_interrupts(p)
    /\ goto(p, "W62wfe")
    /\ UNCHANGED <<cond_spin_lock, mtx_owner, condvars, ev, now, locals, save, ghost,
                   todo>>

\* where the caller goes after the loops (lines 99-104)
Reacquire == IF same_spinlock THEN "W106" ELSE "W102"

\* lines 62-66: the wait returns; on expiry success = false and break, which
\* leaves the loop without the spin lock
W62wfe(p) ==
    /\ pc[p] = "W62wfe"
    /\ best_effort_wfe(p)
    /\ IF time_reached(until[p])
       THEN /\ success' = [success EXCEPT ![p] = FALSE]
            /\ goto(p, Reacquire)
            /\ UNCHANGED <<save, irq>>
       ELSE /\ save_and_disable_interrupts(p)
            /\ goto(p, "W68")
            /\ UNCHANGED success
    /\ UNCHANGED <<lock, cond_spin_lock, mtx_owner, condvars, now, current_broadcast,
                   until, ghost, todo>>

\* line 68
W68(p) ==
    /\ pc[p] = "W68"
    /\ spin_lock_unsafe_blocking(p, cond_spin_lock)
    /\ goto(p, "W53")
    /\ UNCHANGED <<cond_spin_lock, mtx_owner, condvars, ev, now, locals, save, irq,
                   ghost, todo>>

\* line 72
W72(p) ==
    /\ pc[p] = "W72"
    /\ notifies(p)
    /\ goto(p, "W75")
    /\ UNCHANGED <<lock, cond_spin_lock, mtx_owner, condvars, now, locals, save, irq,
                   holding, result, seen, todo>>

\* line 75: the condition under which the caller registers
Registers(p) == success[p] /\ broadcast_count = current_broadcast[p]

W75(p) ==
    /\ pc[p] = "W75"
    /\ goto(p, IF Registers(p) THEN "W76" ELSE Reacquire)
    /\ UNCHANGED <<lock, cond_spin_lock, mtx_owner, condvars, ev, now, locals, save,
                   irq, ghost, todo>>

\* line 76
W76(p) ==
    /\ pc[p] = "W76"
    /\ waiter' = p
    /\ goto(p, "W80")
    /\ UNCHANGED <<lock, cond_spin_lock, mtx_owner, signaled, broadcast_count, ev, now,
                   locals, save, irq, ghost, todo>>

\* a signal wait that takes the timed branch whatever the deadline
W80_always_timed(p) ==
    /\ pc[p] = "W80"
    /\ goto(p, IF signaled THEN "W81" ELSE "W88")
    /\ UNCHANGED <<lock, cond_spin_lock, mtx_owner, condvars, ev, now, locals, save,
                   irq, ghost, todo>>

\* lines 80, 85
W80(p) ==
    /\ pc[p] = "W80"
    /\ goto(p, IF signaled THEN "W81"
               ELSE IF is_at_the_end_of_time(until[p]) THEN "W86" ELSE "W88")
    /\ UNCHANGED <<lock, cond_spin_lock, mtx_owner, condvars, ev, now, locals, save,
                   irq, ghost, todo>>

\* line 81
W81(p) ==
    /\ pc[p] = "W81"
    /\ waiter' = LOCK_INVALID_OWNER_ID
    /\ goto(p, "W82")
    /\ changes_awaited(p)
    /\ UNCHANGED <<lock, cond_spin_lock, mtx_owner, signaled, broadcast_count, ev, now,
                   locals, save, irq, holding, result, seen, todo>>

\* lines 82-83
W82(p) ==
    /\ pc[p] = "W82"
    /\ signaled' = FALSE
    /\ goto(p, Reacquire)
    /\ UNCHANGED <<lock, cond_spin_lock, mtx_owner, waiter, broadcast_count, ev, now,
                   locals, save, irq, ghost, todo>>

\* line 86, the unlock
W86(p) ==
    /\ pc[p] = "W86"
    /\ spin_unlock_unsafe(cond_spin_lock)
    /\ restore_interrupts(p)
    /\ goto(p, "W86wfe")
    /\ UNCHANGED <<cond_spin_lock, mtx_owner, condvars, ev, now, locals, save, ghost,
                   todo>>

\* line 86, the __wfe()
W86wfe(p) ==
    /\ pc[p] = "W86wfe"
    /\ wfe(p)
    /\ save_and_disable_interrupts(p)
    /\ goto(p, "W95")
    /\ UNCHANGED <<lock, cond_spin_lock, mtx_owner, condvars, now, locals, ghost, todo>>

\* line 88, the unlock
W88(p) ==
    /\ pc[p] = "W88"
    /\ spin_unlock_unsafe(cond_spin_lock)
    /\ restore_interrupts(p)
    /\ goto(p, "W88wfe")
    /\ UNCHANGED <<cond_spin_lock, mtx_owner, condvars, ev, now, locals, save, ghost,
                   todo>>

\* line 88, the wait returns
W88wfe(p) ==
    /\ pc[p] = "W88wfe"
    /\ best_effort_wfe(p)
    /\ IF time_reached(until[p])
       THEN /\ goto(p, "W90")
            /\ UNCHANGED <<save, irq>>
       ELSE /\ save_and_disable_interrupts(p)
            /\ goto(p, "W95")
    /\ UNCHANGED <<lock, cond_spin_lock, mtx_owner, condvars, now, locals, ghost, todo>>

\* lines 90-92
W90(p) ==
    /\ pc[p] = "W90"
    /\ waiter' = LOCK_INVALID_OWNER_ID
    /\ success' = [success EXCEPT ![p] = FALSE]
    /\ goto(p, Reacquire)
    /\ changes_awaited(p)
    /\ UNCHANGED <<lock, cond_spin_lock, mtx_owner, signaled, broadcast_count, ev, now,
                   current_broadcast, until, save, irq, holding, result, seen, todo>>

\* line 95
W95(p) ==
    /\ pc[p] = "W95"
    /\ spin_lock_unsafe_blocking(p, cond_spin_lock)
    /\ goto(p, "W80")
    /\ UNCHANGED <<cond_spin_lock, mtx_owner, condvars, ev, now, locals, save, irq,
                   ghost, todo>>

\* line 102
W102(p) ==
    /\ pc[p] = "W102"
    /\ spin_lock_unsafe_blocking(p, MtxSpinLock)
    /\ goto(p, "W103")
    /\ UNCHANGED <<cond_spin_lock, mtx_owner, condvars, ev, now, locals, save, irq,
                   ghost, todo>>

\* line 103
W103(p) ==
    /\ pc[p] = "W103"
    /\ spin_unlock_unsafe(cond_spin_lock)
    /\ goto(p, "W106")
    /\ UNCHANGED <<cond_spin_lock, mtx_owner, condvars, ev, now, locals, save, irq,
                   ghost, todo>>

\* line 106
W106(p) ==
    /\ pc[p] = "W106"
    /\ goto(p, IF lock_is_owner_id_valid(mtx_owner) THEN "W109" ELSE "W122")
    /\ UNCHANGED <<lock, cond_spin_lock, mtx_owner, condvars, ev, now, locals, save,
                   irq, ghost, todo>>

\* line 109: lock_internal_spin_unlock_with_notify(&mtx->core, save)
W109(p) ==
    /\ pc[p] = "W109"
    /\ spin_unlock_unsafe(MtxSpinLock)
    /\ restore_then_disable(p)
    /\ notifies(p)
    /\ goto(p, "W110")
    /\ UNCHANGED <<cond_spin_lock, mtx_owner, condvars, now, locals, holding, result,
                   seen, todo>>

\* line 110
W110(p) ==
    /\ pc[p] = "W110"
    /\ spin_lock_unsafe_blocking(p, MtxSpinLock)
    /\ goto(p, "W113")
    /\ UNCHANGED <<cond_spin_lock, mtx_owner, condvars, ev, now, locals, save, irq,
                   ghost, todo>>

\* lines 113-115
W113(p) ==
    /\ pc[p] = "W113"
    /\ goto(p, IF ~lock_is_owner_id_valid(mtx_owner) THEN "W126" ELSE "W117")
    /\ UNCHANGED <<lock, cond_spin_lock, mtx_owner, condvars, ev, now, locals, save,
                   irq, ghost, todo>>

\* line 117, the unlock
W117(p) ==
    /\ pc[p] = "W117"
    /\ spin_unlock_unsafe(MtxSpinLock)
    /\ restore_interrupts(p)
    /\ goto(p, "W117wfe")
    /\ UNCHANGED <<cond_spin_lock, mtx_owner, condvars, ev, now, locals, save, ghost,
                   todo>>

\* line 117, the __wfe()
W117wfe(p) ==
    /\ pc[p] = "W117wfe"
    /\ wfe(p)
    /\ save_and_disable_interrupts(p)
    /\ goto(p, "W118")
    /\ UNCHANGED <<lock, cond_spin_lock, mtx_owner, condvars, now, locals, ghost, todo>>

\* line 118
W118(p) ==
    /\ pc[p] = "W118"
    /\ spin_lock_unsafe_blocking(p, MtxSpinLock)
    /\ goto(p, "W113")
    /\ UNCHANGED <<cond_spin_lock, mtx_owner, condvars, ev, now, locals, save, irq,
                   ghost, todo>>

\* line 122
W122(p) ==
    /\ pc[p] = "W122"
    /\ notifies(p)
    /\ goto(p, "W126")
    /\ UNCHANGED <<lock, cond_spin_lock, mtx_owner, condvars, now, locals, save, irq,
                   holding, result, seen, todo>>

\* line 126
W126(p) ==
    /\ pc[p] = "W126"
    /\ mtx_owner' = p
    /\ goto(p, "W127")
    /\ UNCHANGED <<lock, cond_spin_lock, condvars, ev, now, locals, save, irq, ghost,
                   todo>>

\* lines 127-129: release the mutex's spin lock and return success
W127(p) ==
    /\ pc[p] = "W127"
    /\ spin_unlock_unsafe(MtxSpinLock)
    /\ restore_interrupts(p)
    /\ holding' = [holding EXCEPT ![p] = TRUE]
    /\ result' = [result EXCEPT ![p] = IF success[p] THEN "true" ELSE "false"]
    /\ success' = [success EXCEPT ![p] = TRUE]
    /\ current_broadcast' = [current_broadcast EXCEPT ![p] = 0]
    /\ until' = [until EXCEPT ![p] = at_the_end_of_time]
    /\ goto(p, "idle")
    /\ UNCHANGED <<cond_spin_lock, mtx_owner, condvars, ev, now, save, seen, owed,
                   todo>>

\* ------------------------------------------------------- specifications
\* the statements every wait runs
WaitStep(p) ==
    \/ W22(p) \/ W34(p) \/ W38(p) \/ W40(p) \/ W43(p) \/ W45(p) \/ W72(p) \/ W75(p)
    \/ W76(p) \/ W80(p) \/ W95(p) \/ W102(p) \/ W103(p) \/ W106(p) \/ W109(p)
    \/ W110(p) \/ W113(p) \/ W117(p) \/ W117wfe(p) \/ W118(p) \/ W122(p) \/ W126(p)
    \/ W127(p)

\* slot negotiation (another waiter is registered)
NegotiationStep(p) == W49(p) \/ W50(p) \/ W53(p) \/ W56(p) \/ W68(p)

\* the waits of a call with the forever deadline
ForeverStep(p) == W60(p) \/ W60wfe(p) \/ W86(p) \/ W86wfe(p)

\* the waits of a call with a finite deadline
TimedStep(p) == W88(p) \/ W88wfe(p) \/ W90(p)

TimedNegotiationStep(p) == W62(p) \/ W62wfe(p)

\* the registered waiter consumes a signal
SignalledStep(p) == W81(p) \/ W82(p)

MutexStep(p) ==
    \/ E_lock(p) \/ E_owner(p) \/ E_take(p) \/ E_wait(p) \/ E_wfe(p)
    \/ X_lock(p) \/ X_owner(p)

SignalStep(p) == S145(p) \/ S146(p) \/ S148(p) \/ S149(p) \/ S151(p)

BroadcastStep(p) ==
    B156(p) \/ B157(p) \/ B159(p) \/ B160(p) \/ B161(p) \/ B163(p)

Call(p) ==
    \/ mutex_enter_blocking(p) \/ mutex_exit(p) \/ cond_wait(p)
    \/ cond_signal(p) \/ cond_broadcast(p)

Step(p) ==
    \/ Call(p) \/ cond_wait_timeout(p)
    \/ WaitStep(p) \/ NegotiationStep(p) \/ ForeverStep(p) \/ SignalledStep(p)
    \/ TimedStep(p) \/ TimedNegotiationStep(p)
    \/ MutexStep(p) \/ SignalStep(p) \/ BroadcastStep(p)

Next == Tick \/ \E p \in Callers : Step(p)

\* every interleaving of the two cores' calls
Spec == Init /\ [][Next]_vars

\* Waits with the forever deadline only: each core takes the mutex, waits and
\* releases the mutex (or makes no call); the third caller takes the mutex,
\* signals or broadcasts twice and releases it.  A caller whose next statement
\* can run runs it.
Signals == {"cond_signal", "cond_broadcast"}
WaitProgram == <<{"mutex_enter"}, {"cond_wait"}, {"mutex_exit"}>>
SignalProgram == <<{"mutex_enter"}, Signals, Signals, {"mutex_exit"}>>
LivePrograms ==
    {prog \in [Callers -> {<<>>, WaitProgram, SignalProgram}] :
        /\ \A p \in Cores : prog[p] \in {<<>>, WaitProgram}
        /\ \A p \in Callers \ Cores : prog[p] = SignalProgram}

LiveStep(p) ==
    \/ Call(p)
    \/ WaitStep(p) \/ NegotiationStep(p) \/ ForeverStep(p) \/ SignalledStep(p)
    \/ MutexStep(p) \/ SignalStep(p) \/ BroadcastStep(p)

LiveNext == \E p \in Callers : LiveStep(p)

LiveSpec ==
    /\ InitWith(LivePrograms)
    /\ [][LiveNext]_vars
    /\ \A p \in Callers : WF_vars(LiveStep(p))

\* A wait with a finite deadline and no signal or broadcast, ever: core 0 takes
\* the mutex, waits with a timeout and releases the mutex; core 1 takes and
\* releases the mutex.  Time passes, and a caller whose next statement can run
\* runs it.
TimedPrograms ==
    {[p \in Callers |->
        IF p = 0 THEN <<{"mutex_enter"}, {"cond_wait_timeout"}, {"mutex_exit"}>>
        ELSE IF p = 1 THEN <<{"mutex_enter"}, {"mutex_exit"}>>
        ELSE <<>>]}

TimedSpecStep(p) ==
    \/ mutex_enter_blocking(p) \/ mutex_exit(p) \/ cond_wait_timeout(p)
    \/ WaitStep(p) \/ TimedStep(p) \/ MutexStep(p)

TimedNext == Tick \/ \E p \in Callers : TimedSpecStep(p)

TimedSpec ==
    /\ InitWith(TimedPrograms)
    /\ [][TimedNext]_vars
    /\ WF_vars(Tick)
    /\ \A p \in Callers : WF_vars(TimedSpecStep(p))

\* Three callers that all wait, with the forever deadline only: each takes the
\* mutex, waits and releases the mutex; caller 1 first signals or broadcasts
\* without the mutex.  A caller whose next statement can run runs it.
SleepPrograms ==
    {[p \in Callers |->
        IF p = 1 THEN <<Signals>> \o WaitProgram ELSE WaitProgram]}

SleepSpec ==
    /\ InitWith(SleepPrograms)
    /\ [][LiveNext]_vars
    /\ \A p \in Callers : WF_vars(LiveStep(p))

\* ================================================================ claims

\* the caller is in the signal-wait phase: it wrote itself into cond->waiter
\* (line 76) and has not yet cleared it (lines 81, 90)
Registered(p) ==
    pc[p] \in {"W80", "W81", "W86", "W86wfe", "W88", "W88wfe", "W90", "W95"}

\* the caller released the mutex (line 38) and has not yet registered (line 76)
\* nor left the slot negotiation
BeforeRegistration(p) ==
    pc[p] \in {"W40", "W43", "W45", "W49", "W50", "W53", "W56", "W60", "W60wfe",
               "W62", "W62wfe", "W68", "W72", "W75", "W76"}

\* C1: when cond_wait_until returns (the caller is at its last statement, the
\* unlock of line 127), mtx->owner is the caller and cond->waiter is not.
ReturnOwnsMutex ==
    \A p \in Callers : pc[p] = "W127" => mtx_owner = p /\ waiter # p

\* C2: at most one caller is between acquiring the mutex (by mutex_enter or by
\* a return from cond_wait_until) and its next release of it.
MutualExclusion == Cardinality({p \in Callers : holding[p]}) <= 1

\* C5: no caller has released the mutex, is not yet registered, and has left
\* the condition variable's spin lock free for cond_signal or cond_broadcast.
ReleaseAndRegisterAtomic ==
    \A p \in Callers : ~(BeforeRegistration(p) /\ lock[cond_spin_lock] = Free)

\* C6: a wait that returned true saw a signal or broadcast take effect between
\* its entry and its return.
TrueReturnWasSignalled ==
    \A p \in Callers : result[p] = "true" => seen[p]

\* C7: at most one caller is in the signal-wait phase; line 76 writes
\* cond->waiter only when it is invalid; lines 81 and 90 clear cond->waiter
\* only when it holds the caller's identity.
ExclusiveWaiter ==
    /\ [](Cardinality({p \in Callers : Registered(p)}) <= 1)
    /\ [][\A p \in Callers : W76(p) => ~lock_is_owner_id_valid(waiter)]_vars
    /\ [][\A p \in Callers : (W81(p) \/ W90(p)) => waiter = p]_vars

\* a step of a cond_signal call that finds cond->waiter invalid at line 146
SignalWithoutWaiterStep(p) ==
    \/ cond_signal(p)
    \/ S145(p)
    \/ S146(p) /\ ~lock_is_owner_id_valid(waiter)
    \/ S151(p)

\* C8: every step of a cond_signal call that finds cond->waiter invalid leaves
\* waiter, signaled, broadcast_count and every event register unchanged (no
\* wake notification is sent).
SignalWithoutWaiterIsNoOp ==
    [][\A p \in Callers :
         SignalWithoutWaiterStep(p) => UNCHANGED <<waiter, signaled, broadcast_count, ev>>]_vars

\* a cond_signal found no waiter and is about to release the lock
SignalFoundNoWaiter ==
    \E p \in Callers : pc[p] = "S151" /\ ~lock_is_owner_id_valid(waiter)

\* the caller is in slot negotiation: it took its snapshot, found another
\* waiter registered and has not left the loop of lines 49-69
Negotiating(p) ==
    pc[p] \in {"W49", "W50", "W53", "W56", "W60", "W60wfe", "W62", "W62wfe", "W68"}

\* the caller's wait returned true and it owns the mutex
ReturnedTrue(p) == result[p] = "true" /\ holding[p] /\ mtx_owner = p

\* the caller makes no call and is in none
Quiet(p) == pc[p] = "idle" /\ todo[p] = <<>>

\* C3: core a is the registered waiter of a forever wait, no other core waits,
\* and caller 2, holding the mutex, signals and then releases the mutex: a's
\* wait eventually returns true with a owning the mutex.
SignalHandOff ==
    \A a \in Cores :
        (/\ Registered(a)
         /\ \A b \in Cores \ {a} : Quiet(b)
         /\ pc[2] = "S149" /\ holding[2])
        ~> ReturnedTrue(a)

\* the signalled waiter has returned, the signaller has released the mutex
SignalHandOffDone ==
    \E a \in Cores :
        /\ ReturnedTrue(a) /\ seen[a] /\ broadcast_count = 0
        /\ \A b \in Cores \ {a} : Quiet(b)
        /\ Quiet(2) /\ ~holding[2]

\* C4: core a is the registered waiter, core b is in slot negotiation and
\* caller 2 broadcasts: both waits eventually return true, each caller owning
\* the mutex at its return.
BroadcastFindsBoth(a, b) ==
    Registered(a) /\ Negotiating(b) /\ pc[2] = "B161"

BroadcastWakesBoth ==
    \A a \in Cores : \A b \in Cores \ {a} :
        /\ BroadcastFindsBoth(a, b) ~> ReturnedTrue(a)
        /\ BroadcastFindsBoth(a, b) ~> ReturnedTrue(b)

\* a broadcast has advanced the count with one waiter registered and the
\* other in slot negotiation
BroadcastFoundBoth ==
    \E a \in Cores : \E b \in Cores \ {a} :
        BroadcastFindsBoth(a, b) /\ broadcast_count = current_broadcast[b] + 1

\* C9: a wait with a finite deadline, with no signal or broadcast ever, returns
\* false, and when it returns (line 127) the caller is the owner of the mutex
\* and cond->waiter is invalid.
TimeoutHonoured ==
    /\ \A p \in Callers : (InWait(p) /\ ~is_at_the_end_of_time(until[p]))
                              ~> (result[p] = "false")
    /\ [](\A p \in Callers :
            pc[p] = "W127" =>
                ~success[p] /\ mtx_owner = p /\ ~lock_is_owner_id_valid(waiter))

\* C10: a caller that is in slot negotiation when a cond_broadcast runs (holds
\* the condition variable's lock, past its test of cond->waiter) eventually
\* returns true.
BroadcastReleasesContenders ==
    \A b \in Cores :
        (Negotiating(b) /\ pc[2] \in {"B159", "B160", "B161", "B163"})
        ~> (result[b] = "true")

\* a cond_broadcast call is at its return statement (line 161 or line 163)
AtBroadcastReturn(p) == pc[p] \in {"B161", "B163"}

\* the call has run line 160, its only increment of cond->broadcast_count
\* (line 161 is reached from line 160 alone, line 163 from the test of line
\* 157 alone)
Incremented(p) == pc[p] = "B161"

\* C11: every call of cond_broadcast has increased broadcast_count by exactly
\* one when it returns, whatever cond->waiter was: a call at its return
\* statement has run the increment of line 160.
BroadcastIncrementsOnce ==
    \A p \in Callers : AtBroadcastReturn(p) => Incremented(p)

\* the statements of the two timeout exits (lines 62-66 and 88-92)
TimeoutPcs == {"W62", "W62wfe", "W88", "W88wfe", "W90"}

\* C12: a wait with the forever deadline is never at a statement of a timeout
\* exit, never has success = false, and returns true when it returns.
ForeverNeverTimesOut ==
    /\ [](\A p \in Callers :
            (InWait(p) /\ is_at_the_end_of_time(until[p]))
                => (success[p] /\ pc[p] \notin TimeoutPcs))
    /\ [][\A p \in Callers :
            (W127(p) /\ is_at_the_end_of_time(until[p])) => result'[p] = "true"]_vars

\* a forever wait is about to return after the clock has run to its end and
\* after it slept in the signal wait
ForeverWaitReturns ==
    \E p \in Callers :
        /\ pc[p] = "W127" /\ is_at_the_end_of_time(until[p])
        /\ seen[p] /\ now = MaxTime

\* the statements of cond_wait_until, cond_signal and cond_broadcast that read
\* or write cond->waiter, cond->signaled or cond->broadcast_count
CondFieldPcs == {"W43", "W45", "W53", "W56", "W75", "W76", "W80", "W81", "W82",
                 "W90", "S146", "S148", "B157", "B159", "B160"}

\* the statements of cond_wait_until that read or write mtx->owner
MtxFieldPcs == {"W38", "W106", "W113", "W126"}

\* C13: a caller about to run a statement that reads or writes a field of the
\* condition variable holds the condition variable's spin lock, and one about
\* to read or write mtx->owner holds the mutex's spin lock.
FieldAccessUnderLock ==
    \A p \in Callers :
        /\ pc[p] \in CondFieldPcs => lock[cond_spin_lock] = p
        /\ pc[p] \in MtxFieldPcs => lock[MtxSpinLock] = p

\* C14: with distinct spin locks, no two callers of cond_wait_until are such
\* that one holds the mutex's lock and spins for the condition variable's
\* (line 34) while the other holds the condition variable's lock and spins for
\* the mutex's (line 102).
NoLockOrderDeadlock ==
    ~same_spinlock =>
        ~ \E a \in Callers : \E b \in Callers \ {a} :
            /\ pc[a] = "W34" /\ lock[MtxSpinLock] = a
            /\ pc[b] = "W102" /\ lock[cond_spin_lock] = b

\* the unlocks of the condition variable's lock and of the mutex's lock that
\* cond_wait_until makes
CondUnlock(p) == W49(p) \/ W60(p) \/ W62(p) \/ W86(p) \/ W88(p) \/ W103(p)
MtxUnlock(p) == W40(p) \/ W109(p) \/ W117(p) \/ W127(p)

\* C15: every unlock made by cond_wait_until (line 103 and line 127 among
\* them) frees a lock the caller holds.
UnlockOnlyWhenHeld ==
    /\ [][\A p \in Callers : CondUnlock(p) => lock[cond_spin_lock] = p]_vars
    /\ [][\A p \in Callers : MtxUnlock(p) => lock[MtxSpinLock] = p]_vars

\* the blocking acquires of cond_wait_until, by the lock they take
MtxAcquirePcs == {"W22", "W102", "W110", "W118"}
CondAcquirePcs == {"W34", "W50", "W68", "W95"}

\* C16: a caller about to make a blocking acquire does not hold the lock it
\* asks for; with one shared lock the acquire of line 34, the unlock of line
\* 40 and the pair of lines 102-103 are never run.
NoDoubleAcquire ==
    \A p \in Callers :
        /\ pc[p] \in MtxAcquirePcs => lock[MtxSpinLock] # p
        /\ pc[p] \in CondAcquirePcs => lock[cond_spin_lock] # p
        /\ same_spinlock => pc[p] \notin {"W34", "W40", "W102", "W103"}

\* with one shared lock a caller has skipped both the second acquire at entry
\* and the pair before the mutex re-acquisition, and still holds the lock
SharedLockSkipsTaken ==
    \E p \in Callers :
        same_spinlock /\ pc[p] = "W106" /\ success[p] /\ lock[MtxSpinLock] = p

\* C17: whenever the condition variable's lock is free, cond->signaled implies
\* that cond->waiter is valid.
SignaledOnlyTransient ==
    (lock[cond_spin_lock] = Free /\ signaled) => lock_is_owner_id_valid(waiter)

\* the caller holds a spin lock or is spinning for one
HoldsOrSpins(p) ==
    \/ \E l \in SpinLocks : lock[l] = p
    \/ pc[p] \in MtxAcquirePcs \cup CondAcquirePcs

\* C19: a caller inside cond_wait_until that holds or spins for a spin lock
\* has its interrupts disabled, and inside cond_wait_until interrupts are
\* enabled again by the final unlock of line 127 only.
InterruptsMaskedThroughout ==
    /\ [](\A p \in Callers : (InWait(p) /\ HoldsOrSpins(p)) => ~irq[p])
    /\ [][\A p \in Callers : (InWait(p) /\ ~irq[p] /\ irq'[p]) => W127(p)]_vars

\* the statements of the mutex re-acquisition (lines 99-127)
ReacquirePcs == {"W102", "W103", "W106", "W109", "W110", "W113", "W117", "W117wfe",
                 "W118", "W122", "W126", "W127"}

\* C20: line 76 writes cond->waiter only when success is true and
\* broadcast_count equals the caller's snapshot; a caller whose negotiation
\* ended by a broadcast or by timeout goes from line 75 (or from the timeout
\* exit) to the mutex re-acquisition, and no statement of the re-acquisition
\* writes cond->waiter or cond->signaled.
RegistersOnlyWithoutBroadcast ==
    /\ [][\A p \in Callers : W76(p) => Registers(p)]_vars
    /\ [][\A p \in Callers :
            (W75(p) /\ ~Registers(p)) => pc'[p] = Reacquire]_vars
    /\ [][\A p \in Callers :
            (pc[p] \in ReacquirePcs /\ pc'[p] # pc[p])
                => UNCHANGED <<waiter, signaled>>]_vars

\* the caller is suspended in a low-power wait
SleepPcs == {"E_wfe", "W60wfe", "W62wfe", "W86wfe", "W88wfe", "W117wfe"}

\* the caller sleeps although the state it waits for has changed: the slot is
\* free or a broadcast advanced the count (line 60), its signal is set (line
\* 86), the mutex has no owner (line 117, mutex_enter_blocking)
SleepsOnChangedState(q) ==
    \/ /\ pc[q] = "W60wfe"
       /\ ~lock_is_owner_id_valid(waiter) \/ broadcast_count # current_broadcast[q]
    \/ pc[q] = "W86wfe" /\ waiter = q /\ signaled
    \/ pc[q] \in {"W117wfe", "E_wfe"} /\ ~lock_is_owner_id_valid(mtx_owner)

\* C18: a caller that has changed a state another core may sleep on is not
\* suspended and has not returned before it has sent a wake notification, and
\* a caller sleeping on a state that has changed eventually wakes.
EverySleepIsNotified ==
    /\ [](\A p \in Callers : owed[p] => pc[p] \notin (SleepPcs \cup {"idle"}))
    /\ \A q \in Callers : SleepsOnChangedState(q) ~> (pc[q] \notin SleepPcs)

====
